---- MODULE Spec2Model ----
(***************************************************************************)
(* A model of url, a thin synchronous HTTP client over libcurl.            *)
(*                                                                         *)
(* Two translation units are modelled: url.cxx (version 0.0.3: get, head,  *)
(* post, put, patch, del) and url.cpp (version 0.0.1: get only).  The      *)
(* variable unit says which of the two the program was built from.         *)
(*                                                                         *)
(* Text is modelled as sequences of one-character strings, so that         *)
(* find/rfind/substr/starts_with/ends_with/tolower are computed position   *)
(* by position as std::string computes them.  Positions are 0-based as in  *)
(* C++; SubSeq is 1-based.                                                 *)
(*                                                                         *)
(* The transfer engine is the environment: it keeps every option set on a  *)
(* handle until the option is set again, invokes the header and write      *)
(* callbacks while curl_easy_perform runs, and ends the transfer with an   *)
(* outcome code.                                                           *)
(***************************************************************************)
EXTENDS Integers, Sequences, FiniteSets, TLC

VARIABLES
    unit,              \* "url.cxx" or "url.cpp": the translation unit built
    pc,                \* per worker: "idle", "perform" (inside curl_easy_perform) or "return"
    curl,              \* per worker: the options held by curl_thread_context.curl
    header_chunk,      \* per worker: curl_thread_context.header_chunk (curl_slist)
    response_headers,  \* per worker: curl_thread_context.response_headers
    chunk,             \* per worker: request()'s local user_data chunk
    response,          \* per worker: request()'s local response_t, returned by value
    call,              \* per worker: the public operation in progress and its arguments
    sent,              \* per worker: what the engine read from the handle for this transfer
    delivered,         \* per worker: what the engine handed to the callbacks in this transfer
    outcome,           \* per worker: the CURLcode curl_easy_perform returned
    curl_global_context,  \* the process-wide curl_global object
    thread,               \* per worker: "unstarted", "running" or "exited"
    curl_thread_context,  \* per worker: the lifetime of its curl_thread_local
    chain                 \* the caller's chain of and_then / or_else calls on a response_t

vars == <<unit, pc, curl, header_chunk, response_headers, chunk, response,
          call, sent, delivered, outcome,
          curl_global_context, thread, curl_thread_context, chain>>

\* the objects with static and thread storage duration, and the threads
lifecycle == <<curl_global_context, thread, curl_thread_context>>

----------------------------------------------------------------------------
(* Bounds of the model.                                                    *)

\* header_callback invocations per transfer
MaxHeaderLines == 2
\* write_user_data invocations per transfer
MaxChunks == 2
\* entries of the curl_slist over a worker's lifetime
MaxSlist == 2
\* and_then / or_else calls in one chain
MaxCalls == 4

Workers == {"w1", "w2"}
MainWorker == "w1"

----------------------------------------------------------------------------
(* std::string operations.                                                 *)

\* std::string::npos, the largest size_t; only compared, never added to
npos == 2147483647

Min(a, b) == IF a <= b THEN a ELSE b

UpperChars == <<"A","B","C","D","E","F","G","H","I","J","K","L","M",
                "N","O","P","Q","R","S","T","U","V","W","X","Y","Z">>
LowerChars == <<"a","b","c","d","e","f","g","h","i","j","k","l","m",
                "n","o","p","q","r","s","t","u","v","w","x","y","z">>

\* ::tolower on the letters A..Z
lower_of_upper ==
    [c \in {UpperChars[i] : i \in 1..Len(UpperChars)} |->
        LowerChars[CHOOSE i \in 1..Len(UpperChars) : UpperChars[i] = c]]

tolower(c) == IF c \in DOMAIN lower_of_upper THEN lower_of_upper[c] ELSE c

\* std::ranges::transform(lower, lower.begin(), ::tolower)
transform_tolower(s) == [i \in 1..Len(s) |-> tolower(s[i])]

starts_with(s, p) == Len(s) >= Len(p) /\ SubSeq(s, 1, Len(p)) = p

ends_with(s, p) == Len(s) >= Len(p) /\ SubSeq(s, Len(s) - Len(p) + 1, Len(s)) = p

\* s.find(ch, pos): the first position >= pos holding ch, or npos
find(s, ch, pos) ==
    IF \E i \in pos..(Len(s) - 1) : s[i + 1] = ch
    THEN CHOOSE i \in pos..(Len(s) - 1) :
            /\ s[i + 1] = ch
            /\ \A j \in pos..(i - 1) : s[j + 1] # ch
    ELSE npos

\* s.rfind(p): the last position where p occurs, or npos
rfind(s, p) ==
    IF \E i \in 0..(Len(s) - Len(p)) : SubSeq(s, i + 1, i + Len(p)) = p
    THEN CHOOSE i \in 0..(Len(s) - Len(p)) :
            /\ SubSeq(s, i + 1, i + Len(p)) = p
            /\ \A j \in (i + 1)..(Len(s) - Len(p)) : SubSeq(s, j + 1, j + Len(p)) # p
    ELSE npos

\* s.substr(pos, count): count characters from pos, or fewer if s ends first
substr(s, pos, count) == SubSeq(s, pos + 1, pos + Min(count, Len(s) - pos))

CR == "\r"
LF == "\n"
CRLF == <<CR, LF>>

----------------------------------------------------------------------------
(* Text constants.                                                         *)

content_type_prefix == <<"c","o","n","t","e","n","t","-","t","y","p","e",":">>
charset_eq == <<"c","h","a","r","s","e","t","=">>

scheme_sep == <<":","/","/">>
http == <<"h","t","t","p">>
https == <<"h","t","t","p","s">>
ftp == <<"f","t","p">>

----------------------------------------------------------------------------
(* The growable response buffer (struct user_data, write_user_data).       *)

\* the zero byte
NUL == "NUL"

\* what malloc(1) may hold before anything is written to it
UninitBytes == {NUL, "?"}

\* user_data::user_data(): one allocated byte, not initialised; size 0
user_data(garbage) == [memory |-> <<garbage>>, size |-> 0]

\* realloc to size + realsize + 1, memcpy at memory[size], size += realsize,
\* memory[size] = 0
write_user_data(mem, contents) ==
    LET realsize == Len(contents)
    IN  [memory |-> SubSeq(mem.memory, 1, mem.size) \o contents \o <<NUL>>,
         size   |-> mem.size + realsize]

----------------------------------------------------------------------------
(* The header accumulator (header_callback).                               *)

\* any trailing line-feed is taken for a line ending
header_callback_any_newline(headers, buffer) ==
    Append(headers,
           IF ends_with(buffer, CRLF)
           THEN SubSeq(buffer, 1, Len(buffer) - 2)
           ELSE IF ends_with(buffer, <<LF>>)
           THEN SubSeq(buffer, 1, Len(buffer) - 1)
           ELSE buffer)

\* emplace_back(buffer, nitems); strip one trailing "\r\n"
header_callback(headers, buffer) ==
    Append(headers,
           IF ends_with(buffer, CRLF)
           THEN SubSeq(buffer, 1, Len(buffer) - 2)
           ELSE buffer)

----------------------------------------------------------------------------
(* The response assembler's charset extraction (request, url.cpp get).     *)

\* url.cxx: the lambda given to find_if lowers the line, then starts_with
is_content_type(header) ==
    starts_with(transform_tolower(header), content_type_prefix)

\* url.cpp: the lambda given to find_if compares the line as delivered
is_content_type_cpp(header) == starts_with(header, content_type_prefix)

\* std::ranges::find_if with is_content_type: the index of the first
\* matching line, 0 for end
find_content_type(headers) ==
    IF \E i \in 1..Len(headers) : is_content_type(headers[i])
    THEN CHOOSE i \in 1..Len(headers) :
            /\ is_content_type(headers[i])
            /\ \A j \in 1..(i - 1) : ~is_content_type(headers[j])
    ELSE 0

\* std::ranges::find_if with url.cpp's lambda
find_content_type_cpp(headers) ==
    IF \E i \in 1..Len(headers) : is_content_type_cpp(headers[i])
    THEN CHOOSE i \in 1..Len(headers) :
            /\ is_content_type_cpp(headers[i])
            /\ \A j \in 1..(i - 1) : ~is_content_type_cpp(headers[j])
    ELSE 0

\* the parameter is looked for in the lower-cased line
charset_of_any_case(content_type) ==
    LET lower == transform_tolower(content_type)
        first == rfind(lower, charset_eq)
    IN  IF first # npos
        THEN LET last == find(lower, ";", first)
             IN  substr(lower, first + 8, last)
        ELSE <<>>

\* first = rfind("charset="); last = find(';', first); substr(first + 8, last)
charset_of(content_type) ==
    LET first == rfind(content_type, charset_eq)
    IN  IF first # npos
        THEN LET last == find(content_type, ";", first)
             IN  substr(content_type, first + 8, last)
        ELSE <<>>

\* response.encoding as request() of url.cxx leaves it
encoding_cxx(headers) ==
    LET i == find_content_type(headers)
    IN  IF i # 0 THEN charset_of(headers[i]) ELSE <<>>

\* res.encoding as get() of url.cpp leaves it
encoding_cpp(headers) ==
    LET i == find_content_type_cpp(headers)
    IN  IF i # 0 THEN charset_of(headers[i]) ELSE <<>>

\* response_t{}: status_code 0, everything else empty
response_t == [status_code |-> 0, headers |-> <<>>, body |-> <<>>,
               encoding |-> <<>>, url |-> <<>>]

\* only the 2xx codes count as success
success_2xx_only(r) == r.status_code >= 200 /\ r.status_code < 300

\* response_t::operator bool
success(r) == r.status_code >= 100 /\ r.status_code < 400

----------------------------------------------------------------------------
(* The chaining helpers of response_t (url.hpp): and_then and or_else.     *)

\* the values a helper returns, by type: a number, a text or a response
uint32_value(n) ==
    [type |-> "uint32_t", number |-> n, text |-> <<>>, response |-> response_t]
string_value(str) ==
    [type |-> "std::string", number |-> 0, text |-> str,
     response |-> response_t]
response_value(r) ==
    [type |-> "response_t", number |-> 0, text |-> <<>>, response |-> r]

\* T(): the value-initialised object of a result type
value_initialized(type) ==
    CASE type = "uint32_t"    -> uint32_value(0)
      [] type = "std::string" -> string_value(<<>>)
      [] type = "response_t"  -> response_value(response_t)

\* callables given to and_then: each takes the response (by const
\* reference, or by value) and returns a value of its result type
status_code_of ==
    [name |-> "status_code_of", result |-> "uint32_t", by_value |-> FALSE]
body_text ==
    [name |-> "body_text", result |-> "std::string", by_value |-> FALSE]
same_response ==
    [name |-> "same_response", result |-> "response_t", by_value |-> TRUE]

\* callables given to or_else: each takes nothing and returns a response_t
empty_response ==
    [name |-> "empty_response", result |-> "response_t", by_value |-> FALSE]
cached_response ==
    [name |-> "cached_response", result |-> "response_t", by_value |-> FALSE]

\* std::invoke(f, args...): the value f returns
invoke(f, args) ==
    CASE f = status_code_of  -> uint32_value(args[1].status_code)
      [] f = body_text       -> string_value(args[1].body)
      [] f = same_response   -> response_value(args[1])
      [] f = empty_response  -> response_value(response_t)
      [] f = cached_response ->
            response_value([response_t EXCEPT !.status_code = 200,
                                              !.body = <<"c">>])

\* a response_t a move constructor has taken from: status_code is copied,
\* the strings and the vector are left valid but unspecified
moved_from(r) ==
    {r, [r EXCEPT !.headers = <<>>, !.body = <<>>, !.encoding = <<>>,
                  !.url = <<>>]}

\* the overload that r.and_then(f) or r.or_else(f) selects for the value
\* category of r: the & overload of and_then names a template parameter F
\* that no function argument deduces, so a non-const lvalue takes the
\* const& overload; or_else has const& and && only
overload_of(op, category) ==
    IF op = "and_then"
    THEN CASE category = "lvalue"       -> "const&"
           [] category = "const lvalue" -> "const&"
           [] category = "rvalue"       -> "&&"
           [] category = "const rvalue" -> "const&&"
    ELSE IF category = "rvalue" THEN "&&" ELSE "const&"

\* f is invoked whatever operator bool says
and_then_unchecked(overload, r, f) ==
    [invoked  |-> <<<<r>>>>,
     value    |-> invoke(f, <<r>>),
     receiver |-> {r}]

\* response_t::and_then, overload by overload: the arguments of every
\* invocation of f, the value returned, and what *this can be afterwards
and_then(overload, r, f) ==
    CASE overload = "&" ->
            IF success(r)
            THEN [invoked  |-> <<<<r>>>>,
                  value    |-> invoke(f, <<r>>),
                  receiver |-> {r}]
            ELSE [invoked  |-> <<>>,
                  value    |-> value_initialized(f.result),
                  receiver |-> {r}]
      [] overload = "const&" ->
            IF success(r)
            THEN [invoked  |-> <<<<r>>>>,
                  value    |-> invoke(f, <<r>>),
                  receiver |-> {r}]
            ELSE [invoked  |-> <<>>,
                  value    |-> value_initialized(f.result),
                  receiver |-> {r}]
      [] overload = "&&" ->
            IF success(r)
            THEN [invoked  |-> <<<<r>>>>,
                  value    |-> invoke(f, <<r>>),
                  receiver |-> IF f.by_value THEN moved_from(r) ELSE {r}]
            ELSE [invoked  |-> <<>>,
                  value    |-> value_initialized(f.result),
                  receiver |-> {r}]
      [] overload = "const&&" ->
            IF success(r)
            THEN [invoked  |-> <<<<r>>>>,
                  value    |-> invoke(f, <<r>>),
                  receiver |-> {r}]
            ELSE [invoked  |-> <<>>,
                  value    |-> value_initialized(f.result),
                  receiver |-> {r}]

\* response_t::or_else, overload by overload
or_else(overload, r, f) ==
    CASE overload = "const&" ->
            IF success(r)
            THEN [invoked  |-> <<>>,
                  value    |-> response_value(r),
                  receiver |-> {r}]
            ELSE [invoked  |-> <<<<>>>>,
                  value    |-> invoke(f, <<>>),
                  receiver |-> {r}]
      [] overload = "&&" ->
            IF success(r)
            THEN [invoked  |-> <<>>,
                  value    |-> response_value(r),
                  receiver |-> moved_from(r)]
            ELSE [invoked  |-> <<<<>>>>,
                  value    |-> invoke(f, <<>>),
                  receiver |-> {r}]

\* no response held, no helper called
NoChain ==
    [value |-> response_value(response_t), category |-> "none",
     calls |-> <<>>]

----------------------------------------------------------------------------
(* The URL normalizer (encode_url) and the engine's URL parser.            *)

\* position of the first "://" in url, or npos
scheme_end(url) ==
    IF \E i \in 0..(Len(url) - 3) : SubSeq(url, i + 1, i + 3) = scheme_sep
    THEN CHOOSE i \in 0..(Len(url) - 3) :
            /\ SubSeq(url, i + 1, i + 3) = scheme_sep
            /\ \A j \in 0..(i - 1) : SubSeq(url, j + 1, j + 3) # scheme_sep
    ELSE npos

\* the scheme the parser sees; CURLU_DEFAULT_SCHEME supplies https
scheme_of(url) ==
    LET colon == scheme_end(url)
    IN  IF colon = npos THEN https
        ELSE transform_tolower(SubSeq(url, 1, colon))

after_scheme(url) ==
    LET colon == scheme_end(url)
    IN  IF colon = npos THEN url ELSE SubSeq(url, colon + 4, Len(url))

host_of(url) ==
    LET rest == after_scheme(url)
        slash == find(rest, "/", 0)
    IN  IF slash = npos THEN rest ELSE SubSeq(rest, 1, slash)

path_of(url) ==
    LET rest == after_scheme(url)
        slash == find(rest, "/", 0)
    IN  IF slash = npos THEN <<"/">> ELSE SubSeq(rest, slash + 1, Len(rest))

RECURSIVE urlencode(_)
\* CURLU_URLENCODE: a space becomes %20
urlencode(s) ==
    IF s = <<>> THEN <<>>
    ELSE (IF Head(s) = " " THEN <<"%", "2", "0">> ELSE <<Head(s)>>)
         \o urlencode(Tail(s))

\* the schemes the engine is built with
supported_schemes == {http, https, ftp}

\* curl_url_set(..., CURLUPART_URL, ...) == CURLUE_OK
curl_url_set_ok(url) ==
    LET host == host_of(url)
    IN  /\ scheme_of(url) \in supported_schemes
        /\ host # <<>>
        /\ \A i \in 1..Len(host) : host[i] # " "

\* curl_url_get(..., CURLUPART_URL, ...)
curl_url_get(url) ==
    scheme_of(url) \o scheme_sep \o host_of(url) \o urlencode(path_of(url))

\* the parser's result is not looked at
encode_url_unchecked(url) == curl_url_get(url)

\* the normalized URL if the parser accepts url, else url itself
encode_url(url) ==
    IF curl_url_set_ok(url) THEN curl_url_get(url) ELSE url

----------------------------------------------------------------------------
(* The transfer handle and the request configurator.                       *)

\* a char const* given to the engine: what it points at and whether that
\* storage is still alive
NullPtr == [null |-> TRUE, live |-> FALSE, data |-> <<>>]
PtrTo(data) == [null |-> FALSE, live |-> TRUE, data |-> data]
\* the storage behind p has just been released: p itself is unchanged and
\* the bytes may or may not still be there
Released(p) == IF p.null THEN p ELSE [p EXCEPT !.live = FALSE]
\* the storage behind p was released and has since been reused
Stale(p) == IF p.null THEN p ELSE [p EXCEPT !.live = FALSE, !.data = <<>>]

\* curl_easy_init(): a handle with every option at its default
curl_easy_init ==
    [url            |-> <<>>,
     protocols      |-> "all",
     followlocation |-> FALSE,
     failonerror    |-> FALSE,
     useragent      |-> "",
     customrequest  |-> "",
     httpreq        |-> "GET",
     nobody         |-> FALSE,
     postfields     |-> NullPtr,
     mimepost       |-> <<>>,
     httpheader     |-> FALSE]

\* set_url_options: CURLOPT_URL, CURLOPT_PROTOCOLS, CURLOPT_FOLLOWLOCATION,
\* CURLOPT_FAILONERROR
set_url_options(c, url) ==
    [c EXCEPT !.url = encode_url(url),
              !.protocols = "http,https",
              !.followlocation = TRUE,
              !.failonerror = TRUE]

\* url.cpp get: CURLOPT_URL with the string as given, CURLOPT_FOLLOWLOCATION,
\* CURLOPT_FAILONERROR
set_url_options_cpp(c, url) ==
    [c EXCEPT !.url = url,
              !.followlocation = TRUE,
              !.failonerror = TRUE]

\* set_headers, the list: curl_slist_append of each header to header_chunk
slist_append_all(list, headers) ==
    IF headers # <<>> THEN list \o headers ELSE list

\* set_headers, the handle: CURLOPT_USERAGENT always, CURLOPT_HTTPHEADER
\* (the list's head) only when headers were given
set_headers(c, headers) ==
    [c EXCEPT !.useragent = "libcurl-agent/1.0",
              !.httpheader = IF headers # <<>> THEN TRUE ELSE @]

\* CURLOPT_CUSTOMREQUEST: only the request keyword changes
set_customrequest(c, method) == [c EXCEPT !.customrequest = method]

\* the option is not set
set_nobody_skipped(c) == c

\* CURLOPT_NOBODY 1: no body is fetched and the request becomes HEAD
set_nobody(c) == [c EXCEPT !.nobody = TRUE, !.httpreq = "HEAD"]

\* CURLOPT_POSTFIELDS: the pointer is stored, not the bytes; the request
\* becomes POST
set_postfields(c, ptr) == [c EXCEPT !.postfields = ptr, !.httpreq = "POST"]

\* CURLOPT_MIMEPOST: the multipart body is bound to the handle; the request
\* becomes a multipart POST, which implies fetching a body
set_mimepost(c, parts) ==
    [c EXCEPT !.mimepost = parts, !.httpreq = "POST_MIME", !.nobody = FALSE]

\* update(): the handle when request() is called.  body_str lives only in
\* the block of the if, so the pointer is dangling by then.
update_curl(c, url, method, body, headers) ==
    LET c1 == set_headers(set_customrequest(set_url_options(c, url), method),
                          headers)
    IN  IF body # <<>>
        THEN [set_postfields(c1, PtrTo(body)) EXCEPT
                  !.postfields = Released(@)]
        ELSE c1

\* what a reader of s.c_str() as a zero-terminated string sees: the
\* characters before the first zero byte
RECURSIVE c_str(_)
c_str(s) ==
    IF s = <<>> \/ Head(s) = NUL THEN <<>>
    ELSE <<Head(s)>> \o c_str(Tail(s))

\* the field's name is given as the data and its value as the name
RECURSIVE mime_parts_swapped(_)
mime_parts_swapped(form) ==
    IF form = <<>> THEN <<>>
    ELSE <<[name |-> c_str(Head(form)[2]), data |-> c_str(Head(form)[1])]>>
         \o mime_parts_swapped(Tail(form))

\* post(url, form): one part per field, in order; curl_mime_name and
\* curl_mime_data (CURL_ZERO_TERMINATED) copy the zero-terminated strings
RECURSIVE mime_parts(_)
mime_parts(form) ==
    IF form = <<>> THEN <<>>
    ELSE <<[name |-> c_str(Head(form)[1]), data |-> c_str(Head(form)[2])]>>
         \o mime_parts(Tail(form))

----------------------------------------------------------------------------
(* The engine's view of a handle when curl_easy_perform starts.            *)

\* what a read through a released pointer may return
GarbageBodies == {<<"?">>}

\* the bytes the engine reads through CURLOPT_POSTFIELDS
postfields_reads(p) ==
    IF p.null THEN {<<>>}
    ELSE IF p.live THEN {p.data}
    ELSE {p.data} \cup GarbageBodies

\* the request keyword: the custom one if set, else HEAD when no body is
\* wanted, else by the kind of request
method_of(c) ==
    IF c.customrequest # "" THEN c.customrequest
    ELSE IF c.nobody THEN "HEAD"
    ELSE IF c.httpreq = "GET" THEN "GET"
    ELSE IF c.httpreq = "HEAD" THEN "HEAD"
    ELSE "POST"

\* CURLOPT_PROTOCOLS lets the URL's scheme through
protocol_allowed(c) ==
    c.protocols = "all" \/ scheme_of(c.url) \in {http, https}

\* the transfer can start: the URL parses and its scheme is allowed
can_connect(c) == curl_url_set_ok(c.url) /\ protocol_allowed(c)

\* leftover: the header accumulator still held lines of an earlier transfer
\* when the operation was called
NoCall == [op |-> "none", url |-> <<>>, body |-> <<>>, form |-> <<>>,
           headers |-> <<>>, leftover |-> FALSE]
NoSent == [method |-> "", payload |-> "none", postfields |-> <<>>,
           mime |-> <<>>, headers |-> <<>>, url |-> <<>>, nobody |-> FALSE,
           payload_live |-> TRUE]
NoDelivery == [headers |-> <<>>, body |-> <<>>]
NoOutcome == [res |-> "none", response_code |-> 0, effective_url |-> <<>>]
NoChunk == [memory |-> <<>>, size |-> 0]

\* what the engine transmits for handle c with request header list list,
\* reading raw as the bytes behind CURLOPT_POSTFIELDS
transfer_of(c, list, raw) ==
    [method       |-> method_of(c),
     payload      |-> IF c.httpreq = "POST" THEN "raw"
                      ELSE IF c.httpreq = "POST_MIME" THEN "mime"
                      ELSE "none",
     postfields   |-> IF c.httpreq = "POST" THEN raw ELSE <<>>,
     mime         |-> IF c.httpreq = "POST_MIME" THEN c.mimepost ELSE <<>>,
     headers      |-> IF c.httpheader THEN list ELSE <<>>,
     url          |-> c.url,
     nobody       |-> c.nobody,
     payload_live |-> IF c.httpreq = "POST" /\ ~c.postfields.null
                      THEN c.postfields.live ELSE TRUE]

----------------------------------------------------------------------------
(* The engine's global state (curl_global) and the per-worker transfer     *)
(* context (curl_thread_local).                                            *)

\* one context for the whole process, as without thread_local
context_of_static(w) == MainWorker

\* thread_local curl_thread_context: the context an operation running on
\* worker w reaches is the one of w
context_of(w) == w

\* curl_global_context before its constructor has run; inits and cleanups
\* count the calls of curl_global_init and curl_global_cleanup
NoGlobal == [state |-> "unconstructed", inits |-> 0, cleanups |-> 0]

\* curl_global::curl_global() with curl_global_init returning 0
curl_global_constructed(g) ==
    [g EXCEPT !.state = "constructed", !.inits = @ + 1]

\* curl_global::curl_global() throwing: curl_global_init failed
curl_global_failed(g) == [g EXCEPT !.state = "failed"]

\* curl_global::~curl_global(): curl_global_cleanup
curl_global_destroyed(g) ==
    [g EXCEPT !.state = "destroyed", !.cleanups = @ + 1]

\* a worker's curl_thread_context before its constructor has run; inits,
\* cleanups and frees count the calls of curl_easy_init, curl_easy_cleanup
\* and curl_slist_free_all
NoContext == [state |-> "unconstructed", inits |-> 0, cleanups |-> 0,
              frees |-> 0]

\* a context constructed anew by every operation, as a local would be
curl_thread_local_every_call(ctx) ==
    [ctx EXCEPT !.state = "constructed", !.inits = @ + 1]

\* the first use of curl_thread_context on a thread runs
\* curl_thread_local::curl_thread_local(), curl_easy_init succeeding; every
\* later use finds the object constructed
curl_thread_local(ctx) ==
    IF ctx.state = "unconstructed"
    THEN [ctx EXCEPT !.state = "constructed", !.inits = @ + 1]
    ELSE ctx

\* curl_thread_local::~curl_thread_local(), run at thread exit for a
\* constructed object only: curl_slist_free_all, curl_easy_cleanup
curl_thread_local_destroyed(ctx) ==
    IF ctx.state = "constructed"
    THEN [ctx EXCEPT !.state = "destroyed", !.frees = @ + 1,
                     !.cleanups = @ + 1]
    ELSE ctx

----------------------------------------------------------------------------
(* The response assembler (request), up to curl_easy_perform.              *)

\* the accumulator is not reset
clear_skipped(headers) == headers

\* curl_thread_context.response_headers.clear()
clear(headers) == <<>>

\* request() of url.cxx and the tail of get() of url.cpp, from their start
\* to the call of curl_easy_perform, on worker w with the handle configured
\* as c and the request header list as list
request(w, c, list) ==
    /\ curl_thread_context' =
           [curl_thread_context EXCEPT ![context_of(w)] = curl_thread_local(@)]
    /\ curl' = [curl EXCEPT ![context_of(w)] = c]
    /\ header_chunk' = [header_chunk EXCEPT ![context_of(w)] = list]
    /\ \E garbage \in UninitBytes :
          chunk' = [chunk EXCEPT ![w] = user_data(garbage)]
    /\ response_headers' =
           [response_headers EXCEPT ![context_of(w)] = clear(@)]
    /\ response' = [response EXCEPT ![w] = response_t]
    /\ \E raw \in postfields_reads(c.postfields) :
          sent' = [sent EXCEPT ![w] = transfer_of(c, list, raw)]
    /\ delivered' = [delivered EXCEPT ![w] = NoDelivery]
    /\ outcome' = [outcome EXCEPT ![w] = NoOutcome]
    /\ pc' = [pc EXCEPT ![w] = "perform"]
    /\ UNCHANGED <<unit, chain, curl_global_context, thread>>

\* a public operation may start on worker w, appending headers to the list:
\* the thread is running, is not inside another operation, and the
\* module's static initialisation is over
may_call(w, headers) ==
    /\ thread[w] = "running"
    /\ curl_global_context.state \in {"constructed", "destroyed"}
    /\ pc[w] = "idle"
    /\ Len(header_chunk[context_of(w)]) + Len(headers) <= MaxSlist

----------------------------------------------------------------------------
(* The public operations of url.cxx.                                       *)

get(w, url, headers) ==
    /\ unit = "url.cxx"
    /\ may_call(w, headers)
    /\ call' = [call EXCEPT ![w] = [NoCall EXCEPT !.op = "get", !.url = url,
                                                  !.leftover = response_headers[context_of(w)] # <<>>,
                                                  !.headers = headers]]
    /\ request(w, set_headers(set_url_options(curl[context_of(w)], url), headers),
               slist_append_all(header_chunk[context_of(w)], headers))

head(w, url, headers) ==
    /\ unit = "url.cxx"
    /\ may_call(w, headers)
    /\ call' = [call EXCEPT ![w] = [NoCall EXCEPT !.op = "head", !.url = url,
                                                  !.leftover = response_headers[context_of(w)] # <<>>,
                                                  !.headers = headers]]
    /\ request(w,
               set_headers(set_nobody(set_url_options(curl[context_of(w)], url)), headers),
               slist_append_all(header_chunk[context_of(w)], headers))

post(w, url, body, headers) ==
    /\ unit = "url.cxx"
    /\ may_call(w, headers)
    /\ call' = [call EXCEPT ![w] = [NoCall EXCEPT !.op = "post", !.url = url,
                                                  !.leftover = response_headers[context_of(w)] # <<>>,
                                                  !.body = body,
                                                  !.headers = headers]]
    /\ request(w,
               set_postfields(
                   set_headers(set_url_options(curl[context_of(w)], url), headers),
                   PtrTo(body)),
               slist_append_all(header_chunk[context_of(w)], headers))

post_form(w, url, form, headers) ==
    /\ unit = "url.cxx"
    /\ may_call(w, headers)
    /\ call' = [call EXCEPT ![w] = [NoCall EXCEPT !.op = "post_form",
                                                  !.leftover = response_headers[context_of(w)] # <<>>,
                                                  !.url = url, !.form = form,
                                                  !.headers = headers]]
    /\ request(w,
               set_mimepost(
                   set_headers(set_url_options(curl[context_of(w)], url), headers),
                   mime_parts(form)),
               slist_append_all(header_chunk[context_of(w)], headers))

update(w, op, url, method, body, headers) ==
    /\ unit = "url.cxx"
    /\ may_call(w, headers)
    /\ call' = [call EXCEPT ![w] = [NoCall EXCEPT !.op = op, !.url = url,
                                                  !.leftover = response_headers[context_of(w)] # <<>>,
                                                  !.body = body,
                                                  !.headers = headers]]
    /\ request(w, update_curl(curl[context_of(w)], url, method, body, headers),
               slist_append_all(header_chunk[context_of(w)], headers))

put(w, url, body, headers) == update(w, "put", url, "PUT", body, headers)

patch(w, url, body, headers) == update(w, "patch", url, "PATCH", body, headers)

del(w, url, body, headers) == update(w, "del", url, "DELETE", body, headers)

(* The public operation of url.cpp.                                        *)

get_cpp(w, url, headers) ==
    /\ unit = "url.cpp"
    /\ may_call(w, headers)
    /\ call' = [call EXCEPT ![w] = [NoCall EXCEPT !.op = "get", !.url = url,
                                                  !.leftover = response_headers[context_of(w)] # <<>>,
                                                  !.headers = headers]]
    /\ request(w, set_headers(set_url_options_cpp(curl[context_of(w)], url), headers),
               slist_append_all(header_chunk[context_of(w)], headers))

----------------------------------------------------------------------------
(* The engine's callbacks while curl_easy_perform runs.                    *)

\* the engine hands one response header line to header_callback
on_header(w, buffer) ==
    /\ pc[w] = "perform"
    /\ can_connect(curl[context_of(w)])
    /\ Len(delivered[w].headers) < MaxHeaderLines
    /\ response_headers' =
           [response_headers EXCEPT ![context_of(w)] =
               header_callback(@, buffer)]
    /\ delivered' = [delivered EXCEPT ![w].headers = Append(@, buffer)]
    /\ UNCHANGED <<unit, chain, pc, curl, header_chunk, chunk, response, call, sent,
                   outcome, lifecycle>>

\* the engine hands one piece of the response body to write_user_data;
\* with CURLOPT_NOBODY set it never does
on_write(w, contents) ==
    /\ pc[w] = "perform"
    /\ can_connect(curl[context_of(w)])
    /\ ~curl[context_of(w)].nobody
    /\ Len(delivered[w].body) < MaxChunks
    /\ chunk' = [chunk EXCEPT ![w] = write_user_data(@, contents)]
    /\ delivered' = [delivered EXCEPT ![w].body = Append(@, contents)]
    /\ UNCHANGED <<unit, chain, pc, curl, header_chunk, response_headers, response,
                   call, sent, outcome, lifecycle>>

----------------------------------------------------------------------------
(* The response assembler (request), from curl_easy_perform's return.      *)

CURLE_OK == "CURLE_OK"
CURLE_HTTP_RETURNED_ERROR == "CURLE_HTTP_RETURNED_ERROR"
CURLE_UNSUPPORTED_PROTOCOL == "CURLE_UNSUPPORTED_PROTOCOL"
CURLE_COULDNT_RESOLVE_HOST == "CURLE_COULDNT_RESOLVE_HOST"
CURLE_OPERATION_TIMEDOUT == "CURLE_OPERATION_TIMEDOUT"

\* every outcome is taken for a response
inspectable_always(curl_res) == TRUE

\* only clean success is taken for a response
inspectable_ok_only(curl_res) == curl_res = CURLE_OK

\* curl_res == CURLE_OK || curl_res == CURLE_HTTP_RETURNED_ERROR
inspectable(curl_res) ==
    curl_res = CURLE_OK \/ curl_res = CURLE_HTTP_RETURNED_ERROR

\* response.body.assign(chunk.memory, chunk.memory + chunk.size)
body_of(mem) == SubSeq(mem.memory, 1, mem.size)

\* response.encoding of the translation unit built
encoding_of(u, headers) ==
    IF u = "url.cxx" THEN encoding_cxx(headers) ELSE encoding_cpp(headers)

\* the response_t request() returns
assemble(u, curl_res, response_code, mem, headers, effective_url) ==
    IF inspectable(curl_res)
    THEN [status_code |-> response_code,
          headers     |-> headers,
          body        |-> body_of(mem),
          encoding    |-> encoding_of(u, headers),
          url         |-> effective_url]
    ELSE response_t

\* response.headers = std::move(curl_thread_context.response_headers)
\* leaves the accumulator empty; otherwise it keeps what was delivered
after_move(curl_res, headers) ==
    IF inspectable(curl_res) THEN <<>> ELSE headers

\* the response codes the engine reports
StatusOK == {200}
StatusError == {404}

\* where a followed redirect may lead
Redirected == http \o scheme_sep \o <<"r", "/">>

Result(curl_res, response_code, effective_url) ==
    [res |-> curl_res, response_code |-> response_code,
     effective_url |-> effective_url]

\* the outcomes the engine may end a transfer on handle c with, after
\* delivering d, when the server answers with a code of ok (below 400) or
\* of err (400 and above)
engine_outcomes_of(c, d, ok, err) ==
    IF ~can_connect(c)
    THEN {Result(CURLE_UNSUPPORTED_PROTOCOL, 0, c.url)}
    ELSE {Result(CURLE_OK, code, url) :
              code \in ok, url \in {c.url, Redirected}}
         \cup (IF c.failonerror
                THEN {Result(CURLE_HTTP_RETURNED_ERROR, code, url) :
                          code \in err, url \in {c.url, Redirected}}
                ELSE {})
         \cup (IF d = NoDelivery
                THEN {Result(CURLE_COULDNT_RESOLVE_HOST, 0, c.url)}
                ELSE {})
         \cup {Result(CURLE_OPERATION_TIMEDOUT,
                       IF d.headers = <<>> THEN 0 ELSE 200, c.url)}

engine_outcomes(c, d) == engine_outcomes_of(c, d, StatusOK, StatusError)

\* curl_easy_perform returns with one of results; request() builds the
\* response and the public operation returns it
perform_return_of(w, results) ==
    /\ pc[w] = "perform"
    /\ \E result \in results :
          /\ outcome' = [outcome EXCEPT ![w] = result]
          /\ response' = [response EXCEPT ![w] =
                              assemble(unit, result.res, result.response_code,
                                       chunk[w],
                                       response_headers[context_of(w)],
                                       result.effective_url)]
          /\ response_headers' =
                 [response_headers EXCEPT ![context_of(w)] =
                     after_move(result.res, @)]
    /\ pc' = [pc EXCEPT ![w] = "return"]
    /\ UNCHANGED <<unit, chain, curl, header_chunk, chunk, call, sent, delivered,
                   lifecycle>>

perform_return(w) ==
    perform_return_of(w, engine_outcomes(curl[context_of(w)], delivered[w]))

\* the operation's locals go out of scope when it returns: body_str of
\* post is destroyed (that of update was destroyed before request() ran),
\* and the mime of post is freed (curl_mime_free unbinds it from the
\* handle, leaving an empty multipart body).  The handle keeps the pointer.
end_of_scope(c, op) ==
    IF op = "post_form"
    THEN [c EXCEPT !.mimepost = <<>>, !.postfields = Stale(@)]
    ELSE [c EXCEPT !.postfields = Stale(@)]

\* request() and the public operation return: chunk and the operation's
\* locals are destroyed and the response_t passes to the caller, leaving
\* the worker's context as the only state
return_response(w) ==
    /\ pc[w] = "return"
    /\ chunk' = [chunk EXCEPT ![w] = NoChunk]
    /\ curl' = [curl EXCEPT ![context_of(w)] = end_of_scope(@, call[w].op)]
    /\ response' = [response EXCEPT ![w] = response_t]
    /\ call' = [call EXCEPT ![w] = NoCall]
    /\ sent' = [sent EXCEPT ![w] = NoSent]
    /\ delivered' = [delivered EXCEPT ![w] = NoDelivery]
    /\ outcome' = [outcome EXCEPT ![w] = NoOutcome]
    /\ pc' = [pc EXCEPT ![w] = "idle"]
    /\ UNCHANGED <<unit, chain, header_chunk, response_headers, lifecycle>>

----------------------------------------------------------------------------
(* The inputs of the request lifecycle.                                    *)

Urls == {<<"a">>, ftp \o scheme_sep \o <<"a">>}

Bodies == {<<>>, <<"b">>}

HeaderArgs == {<<>>, <<"A: 1">>, <<"B: 2", "A: 1">>}

username == <<"u","s","e","r","n","a","m","e">>
dopey == <<"d","o","p","e","y">>
password == <<"p","a","s","s","w","o","r","d">>
qwerty == <<"q","w","e","r","t","y">>

Forms == {<<>>, <<<<username, dopey>>, <<password, qwerty>>>>}

HeaderLines == {<<"X", ":", "1", CR, LF>>,
                content_type_prefix \o charset_eq \o <<"u", CR, LF>>}

BodyChunks == {<<"x">>}

----------------------------------------------------------------------------
(* The request lifecycle of one worker.                                    *)

Init ==
    /\ unit \in {"url.cxx", "url.cpp"}
    /\ pc = [w \in Workers |-> "idle"]
    /\ curl = [w \in Workers |-> curl_easy_init]
    /\ header_chunk = [w \in Workers |-> <<>>]
    /\ response_headers = [w \in Workers |-> <<>>]
    /\ chunk = [w \in Workers |-> NoChunk]
    /\ response = [w \in Workers |-> response_t]
    /\ call = [w \in Workers |-> NoCall]
    /\ sent = [w \in Workers |-> NoSent]
    /\ delivered = [w \in Workers |-> NoDelivery]
    /\ outcome = [w \in Workers |-> NoOutcome]
    /\ curl_global_context = curl_global_constructed(NoGlobal)
    /\ thread = [w \in Workers |->
                     IF w = MainWorker THEN "running" ELSE "unstarted"]
    /\ curl_thread_context = [w \in Workers |-> NoContext]
    /\ chain = NoChain

Next ==
    \/ \E url \in Urls, headers \in HeaderArgs :
          get(MainWorker, url, headers)
    \/ \E url \in Urls, headers \in HeaderArgs :
          head(MainWorker, url, headers)
    \/ \E url \in Urls, body \in Bodies, headers \in HeaderArgs :
          post(MainWorker, url, body, headers)
    \/ \E url \in Urls, form \in Forms, headers \in HeaderArgs :
          post_form(MainWorker, url, form, headers)
    \/ \E url \in Urls, body \in Bodies, headers \in HeaderArgs :
          put(MainWorker, url, body, headers)
    \/ \E url \in Urls, body \in Bodies, headers \in HeaderArgs :
          patch(MainWorker, url, body, headers)
    \/ \E url \in Urls, body \in Bodies, headers \in HeaderArgs :
          del(MainWorker, url, body, headers)
    \/ \E url \in Urls, headers \in HeaderArgs :
          get_cpp(MainWorker, url, headers)
    \/ \E buffer \in HeaderLines : on_header(MainWorker, buffer)
    \/ \E contents \in BodyChunks : on_write(MainWorker, contents)
    \/ perform_return(MainWorker)
    \/ return_response(MainWorker)

Spec == Init /\ [][Next]_vars

----------------------------------------------------------------------------
(* The response side of the lifecycle: every operation, called without     *)
(* request headers, against transfers that deliver more varied data.       *)

ResponseChunks == {<<>>, <<"x">>, <<"y", "z">>}

NextResponse ==
    \/ \E url \in Urls : get(MainWorker, url, <<>>)
    \/ \E url \in Urls : head(MainWorker, url, <<>>)
    \/ \E url \in Urls, body \in Bodies : post(MainWorker, url, body, <<>>)
    \/ \E url \in Urls, form \in Forms : post_form(MainWorker, url, form, <<>>)
    \/ \E url \in Urls, body \in Bodies : put(MainWorker, url, body, <<>>)
    \/ \E url \in Urls, body \in Bodies : patch(MainWorker, url, body, <<>>)
    \/ \E url \in Urls, body \in Bodies : del(MainWorker, url, body, <<>>)
    \/ \E url \in Urls : get_cpp(MainWorker, url, <<>>)
    \/ \E buffer \in HeaderLines : on_header(MainWorker, buffer)
    \/ \E contents \in ResponseChunks : on_write(MainWorker, contents)
    \/ perform_return(MainWorker)
    \/ return_response(MainWorker)

SpecResponse == Init /\ [][NextResponse]_vars

----------------------------------------------------------------------------
(* Response text: one get per worker lifetime, against content-type lines  *)
(* in several spellings (SpecText) and against header lines with every     *)
(* line ending (SpecHeaders).                                              *)

Content_Type_prefix == <<"C","o","n","t","e","n","t","-","T","y","p","e",":">>
CONTENT_TYPE_prefix == <<"C","O","N","T","E","N","T","-","T","Y","P","E",":">>
text_html == <<" ","t","e","x","t","/","h","t","m","l",";"," ">>
UTF_8 == <<"U","T","F","-","8">>
boundary == <<";"," ","b","o","u","n","d","a","r","y","=","x">>

ContentTypeNames ==
    {content_type_prefix, Content_Type_prefix, CONTENT_TYPE_prefix}

\* content-type lines: a name, text before the charset parameter, the
\* parameter, text after it, and the line ending
ContentTypeLines ==
    {name \o before \o charset_eq \o UTF_8 \o after \o CRLF :
        name \in ContentTypeNames,
        before \in {<<" ">>, text_html},
        after \in {<<>>, boundary}}

\* lines that differ in how they end
EndingLines ==
    {<<"X", CR, LF>>, <<"X", LF>>, <<"X", CR>>, <<"X">>, <<CR, LF>>, <<>>,
     <<"X", CR, LF, CR, LF>>}

TextLines == ContentTypeLines \cup {<<"X", ":", "1", CR, LF>>}

\* header lines with every ending, and one content-type line among them
RoundTripLines ==
    EndingLines \cup {content_type_prefix \o charset_eq \o <<"u", CR, LF>>}

\* the first operation on a worker's handle
first_get(w, url) ==
    curl[context_of(w)] = curl_easy_init /\ get(w, url, <<>>)

first_get_cpp(w, url) ==
    curl[context_of(w)] = curl_easy_init /\ get_cpp(w, url, <<>>)

NextText ==
    \/ \E url \in Urls : first_get(MainWorker, url)
    \/ \E url \in Urls : first_get_cpp(MainWorker, url)
    \/ \E buffer \in TextLines : on_header(MainWorker, buffer)
    \/ \E contents \in BodyChunks : on_write(MainWorker, contents)
    \/ perform_return(MainWorker)
    \/ return_response(MainWorker)

SpecText == Init /\ [][NextText]_vars

NextHeaders ==
    \/ \E url \in Urls : first_get(MainWorker, url)
    \/ \E url \in Urls : first_get_cpp(MainWorker, url)
    \/ \E buffer \in RoundTripLines : on_header(MainWorker, buffer)
    \/ \E contents \in BodyChunks : on_write(MainWorker, contents)
    \/ perform_return(MainWorker)
    \/ return_response(MainWorker)

SpecHeaders == Init /\ [][NextHeaders]_vars

----------------------------------------------------------------------------
(* Responses without a charset: no content-type line, a content-type line  *)
(* without the parameter or with the parameter name in capitals, and the   *)
(* parameter on a line that is not content-type.                           *)

CHARSET_eq == <<"C","H","A","R","S","E","T","=">>
x_note == <<"x","-","n","o","t","e",":"," ">>

NoCharsetLines ==
    {<<"X", ":", "1", CR, LF>>,
     content_type_prefix \o text_html \o CRLF,
     Content_Type_prefix \o text_html \o CHARSET_eq \o UTF_8 \o CRLF,
     x_note \o charset_eq \o UTF_8 \o CRLF,
     content_type_prefix \o text_html \o charset_eq \o UTF_8 \o CRLF}

NextNoCharset ==
    \/ \E url \in Urls : first_get(MainWorker, url)
    \/ \E url \in Urls : first_get_cpp(MainWorker, url)
    \/ \E buffer \in NoCharsetLines : on_header(MainWorker, buffer)
    \/ \E contents \in BodyChunks : on_write(MainWorker, contents)
    \/ perform_return(MainWorker)
    \/ return_response(MainWorker)

SpecNoCharset == Init /\ [][NextNoCharset]_vars

----------------------------------------------------------------------------
(* URLs: operations called with URLs the engine's parser accepts (with and *)
(* without a scheme, with a space in the path) and rejects (a scheme the   *)
(* engine does not know, a space in the host, the empty string).           *)

foo == <<"f","o","o">>

UrlTexts ==
    {<<"a">>,
     <<"a", "/", "b", " ", "c">>,
     http \o scheme_sep \o <<"a">>,
     ftp \o scheme_sep \o <<"a">>,
     foo \o scheme_sep \o <<"a">>,
     <<"a", " ", "b">>,
     <<>>}

NextUrl ==
    \/ \E url \in UrlTexts : get(MainWorker, url, <<>>)
    \/ \E url \in UrlTexts : head(MainWorker, url, <<>>)
    \/ \E url \in UrlTexts : post(MainWorker, url, <<"b">>, <<>>)
    \/ \E url \in UrlTexts : del(MainWorker, url, <<>>, <<>>)
    \/ \E url \in UrlTexts : get_cpp(MainWorker, url, <<>>)
    \/ \E buffer \in HeaderLines : on_header(MainWorker, buffer)
    \/ \E contents \in BodyChunks : on_write(MainWorker, contents)
    \/ perform_return(MainWorker)
    \/ return_response(MainWorker)

SpecUrl == Init /\ [][NextUrl]_vars

----------------------------------------------------------------------------
(* Status codes: every operation against servers that answer with codes    *)
(* across the ranges of the success predicate.                             *)

\* codes a transfer can end on with CURLE_OK
StatusCodesOK == {101, 200, 204, 299, 304, 399}

\* codes CURLOPT_FAILONERROR turns into CURLE_HTTP_RETURNED_ERROR
StatusCodesError == {400, 404, 500, 599}

perform_return_status(w) ==
    perform_return_of(w, engine_outcomes_of(curl[context_of(w)], delivered[w],
                                            StatusCodesOK, StatusCodesError))

NextStatus ==
    \/ get(MainWorker, <<"a">>, <<>>)
    \/ head(MainWorker, <<"a">>, <<>>)
    \/ post(MainWorker, <<"a">>, <<"b">>, <<>>)
    \/ \E form \in Forms : post_form(MainWorker, <<"a">>, form, <<>>)
    \/ put(MainWorker, <<"a">>, <<"b">>, <<>>)
    \/ patch(MainWorker, <<"a">>, <<"b">>, <<>>)
    \/ del(MainWorker, <<"a">>, <<>>, <<>>)
    \/ get_cpp(MainWorker, <<"a">>, <<>>)
    \/ \E buffer \in HeaderLines : on_header(MainWorker, buffer)
    \/ \E contents \in BodyChunks : on_write(MainWorker, contents)
    \/ perform_return_status(MainWorker)
    \/ return_response(MainWorker)

SpecStatus == Init /\ [][NextStatus]_vars

----------------------------------------------------------------------------
(* Forms: post with a form, among gets and posts with a raw body, with     *)
(* field values that hold a zero byte.                                     *)

FormsWithNul ==
    Forms \cup {<<<<<<"k">>, <<"v", NUL, "w">>>>>>,
                <<<<<<"k">>, <<NUL>>>>, <<<<"l">>, <<>>>>>>}

NextForm ==
    \/ get(MainWorker, <<"a">>, <<>>)
    \/ head(MainWorker, <<"a">>, <<>>)
    \/ post(MainWorker, <<"a">>, <<"b">>, <<>>)
    \/ \E form \in FormsWithNul : post_form(MainWorker, <<"a">>, form, <<>>)
    \/ \E buffer \in HeaderLines : on_header(MainWorker, buffer)
    \/ \E contents \in BodyChunks : on_write(MainWorker, contents)
    \/ perform_return(MainWorker)
    \/ return_response(MainWorker)

SpecForm == Init /\ [][NextForm]_vars

----------------------------------------------------------------------------
(* The process: static initialisation, two worker threads issuing          *)
(* requests, thread exit and static destruction.  The transfers deliver    *)
(* body chunks only.                                                       *)

\* the process before the dynamic initialisation of the module's statics:
\* the main thread exists, no other thread has been started
InitProcess ==
    /\ unit \in {"url.cxx", "url.cpp"}
    /\ pc = [w \in Workers |-> "idle"]
    /\ curl = [w \in Workers |-> curl_easy_init]
    /\ header_chunk = [w \in Workers |-> <<>>]
    /\ response_headers = [w \in Workers |-> <<>>]
    /\ chunk = [w \in Workers |-> NoChunk]
    /\ response = [w \in Workers |-> response_t]
    /\ call = [w \in Workers |-> NoCall]
    /\ sent = [w \in Workers |-> NoSent]
    /\ delivered = [w \in Workers |-> NoDelivery]
    /\ outcome = [w \in Workers |-> NoOutcome]
    /\ curl_global_context = NoGlobal
    /\ thread = [w \in Workers |->
                     IF w = MainWorker THEN "running" ELSE "unstarted"]
    /\ curl_thread_context = [w \in Workers |-> NoContext]
    /\ chain = NoChain

\* the dynamic initialisation of curl_global_context, on the main thread
\* before main: curl_global_init succeeds, or fails and the constructor
\* throws, which ends the process
curl_global_ctor ==
    /\ curl_global_context.state = "unconstructed"
    /\ \E ok \in BOOLEAN :
          curl_global_context' =
              IF ok THEN curl_global_constructed(curl_global_context)
              ELSE curl_global_failed(curl_global_context)
    /\ UNCHANGED <<unit, chain, pc, curl, header_chunk, response_headers, chunk,
                   response, call, sent, delivered, outcome, thread,
                   curl_thread_context>>

\* the program starts worker w as a thread; it can do so from main or from
\* code that runs during static destruction, not before the module's
\* statics are initialised
thread_start(w) ==
    /\ thread[w] = "unstarted"
    /\ curl_global_context.state \in {"constructed", "destroyed"}
    /\ thread' = [thread EXCEPT ![w] = "running"]
    /\ UNCHANGED <<unit, chain, pc, curl, header_chunk, response_headers, chunk,
                   response, call, sent, delivered, outcome,
                   curl_global_context, curl_thread_context>>

\* a public operation on worker w reaches curl_thread_context for the first
\* time and curl_easy_init returns null: the constructor throws
\* std::runtime_error out of the operation before it has set any option
curl_easy_init_fails(w) ==
    /\ may_call(w, <<>>)
    /\ curl_thread_context[context_of(w)].state = "unconstructed"
    /\ pc' = [pc EXCEPT ![w] = "thrown"]
    /\ UNCHANGED <<unit, chain, curl, header_chunk, response_headers, chunk,
                   response, call, sent, delivered, outcome, lifecycle>>

\* the caller of the operation handles the exception
caught(w) ==
    /\ pc[w] = "thrown"
    /\ pc' = [pc EXCEPT ![w] = "idle"]
    /\ UNCHANGED <<unit, chain, curl, header_chunk, response_headers, chunk,
                   response, call, sent, delivered, outcome, lifecycle>>

\* worker w ends (for the main worker: main returns): the thread's
\* curl_thread_context is destroyed if it was constructed, which frees the
\* request header list and the handle together with response_headers
thread_exit(w) ==
    /\ thread[w] = "running"
    /\ pc[w] = "idle"
    /\ thread' = [thread EXCEPT ![w] = "exited"]
    /\ curl_thread_context' =
           [curl_thread_context EXCEPT ![w] = curl_thread_local_destroyed(@)]
    /\ curl' = [curl EXCEPT ![w] = curl_easy_init]
    /\ header_chunk' = [header_chunk EXCEPT ![w] = <<>>]
    /\ response_headers' = [response_headers EXCEPT ![w] = <<>>]
    /\ UNCHANGED <<unit, chain, pc, chunk, response, call, sent, delivered, outcome,
                   curl_global_context>>

\* static destruction, after main has returned and the main thread's
\* thread-local objects are destroyed: curl_global_context is destroyed.
\* Nothing in the module waits for the other threads.
curl_global_dtor ==
    /\ thread[MainWorker] = "exited"
    /\ curl_global_context.state = "constructed"
    /\ curl_global_context' = curl_global_destroyed(curl_global_context)
    /\ UNCHANGED <<unit, chain, pc, curl, header_chunk, response_headers, chunk,
                   response, call, sent, delivered, outcome, thread,
                   curl_thread_context>>

\* the request headers workers pass
WorkerHeaderArgs == {<<>>, <<"A: 1">>}

NextWorkers ==
    \/ curl_global_ctor
    \/ \E w \in Workers \ {MainWorker} : thread_start(w)
    \/ \E w \in Workers, headers \in WorkerHeaderArgs :
          get(w, <<"a">>, headers)
    \/ \E w \in Workers, headers \in WorkerHeaderArgs :
          get_cpp(w, <<"a">>, headers)
    \/ \E w \in Workers : curl_easy_init_fails(w)
    \/ \E w \in Workers : caught(w)
    \/ \E w \in Workers, contents \in BodyChunks : on_write(w, contents)
    \/ \E w \in Workers : perform_return(w)
    \/ \E w \in Workers : return_response(w)
    \/ \E w \in Workers : thread_exit(w)
    \/ curl_global_dtor

SpecWorkers == InitProcess /\ [][NextWorkers]_vars

----------------------------------------------------------------------------
(* Two workers, each issuing its first request, with the callbacks of the  *)
(* two transfers interleaved in every order.                               *)

NextConcurrent ==
    \/ \E w \in Workers \ {MainWorker} : thread_start(w)
    \/ \E w \in Workers : first_get(w, <<"a">>)
    \/ \E w \in Workers : first_get_cpp(w, <<"a">>)
    \/ \E w \in Workers, buffer \in HeaderLines : on_header(w, buffer)
    \/ \E w \in Workers, contents \in BodyChunks : on_write(w, contents)
    \/ \E w \in Workers : perform_return(w)
    \/ \E w \in Workers : return_response(w)

SpecConcurrent == Init /\ [][NextConcurrent]_vars

----------------------------------------------------------------------------
(* Chains of helper calls: the caller holds a response_t and calls         *)
(* and_then and or_else on it and on the responses they return.            *)

\* responses a caller holds: the sentinel of a failed transfer, and answers
\* with status codes on both sides of each end of operator bool's range
ChainResponses ==
    {response_t} \cup
    {[status_code |-> code, headers |-> << <<"X", ":", "1">> >>,
      body |-> <<"x">>, encoding |-> <<>>, url |-> <<"a">>] :
        code \in {100, 200, 399, 400, 404}}

\* the caller names a response_t by an expression of some value category
hold(r, category) ==
    /\ chain = NoChain
    /\ chain' = [value |-> response_value(r), category |-> category,
                 calls |-> <<>>]
    /\ UNCHANGED <<unit, pc, curl, header_chunk, response_headers, chunk,
                   response, call, sent, delivered, outcome, lifecycle>>

\* value.and_then(f) on the response the chain has reached; what it
\* returns is a prvalue, the receiver of the next call
chain_and_then(f) ==
    /\ chain.category # "none"
    /\ chain.value.type = "response_t"
    /\ Len(chain.calls) < MaxCalls
    /\ LET r == chain.value.response
           overload == overload_of("and_then", chain.category)
           done == and_then(overload, r, f)
       IN  \E after \in done.receiver :
              chain' = [value    |-> done.value,
                        category |-> "rvalue",
                        calls    |-> Append(chain.calls,
                                        [op       |-> "and_then",
                                         overload |-> overload,
                                         r        |-> r,
                                         f        |-> f,
                                         invoked  |-> done.invoked,
                                         value    |-> done.value,
                                         receiver |-> after])]
    /\ UNCHANGED <<unit, pc, curl, header_chunk, response_headers, chunk,
                   response, call, sent, delivered, outcome, lifecycle>>

\* value.or_else(f) on the response the chain has reached
chain_or_else(f) ==
    /\ chain.category # "none"
    /\ chain.value.type = "response_t"
    /\ Len(chain.calls) < MaxCalls
    /\ LET r == chain.value.response
           overload == overload_of("or_else", chain.category)
           done == or_else(overload, r, f)
       IN  \E after \in done.receiver :
              chain' = [value    |-> done.value,
                        category |-> "rvalue",
                        calls    |-> Append(chain.calls,
                                        [op       |-> "or_else",
                                         overload |-> overload,
                                         r        |-> r,
                                         f        |-> f,
                                         invoked  |-> done.invoked,
                                         value    |-> done.value,
                                         receiver |-> after])]
    /\ UNCHANGED <<unit, pc, curl, header_chunk, response_headers, chunk,
                   response, call, sent, delivered, outcome, lifecycle>>

NextChain ==
    \/ \E r \in ChainResponses,
          category \in {"lvalue", "const lvalue", "rvalue", "const rvalue"} :
          hold(r, category)
    \/ \E f \in {status_code_of, body_text, same_response} :
          chain_and_then(f)
    \/ \E f \in {empty_response, cached_response} : chain_or_else(f)

SpecChain == Init /\ [][NextChain]_vars

----------------------------------------------------------------------------
(* What the properties compare the program against.                        *)

\* a delivered header line without one trailing carriage-return+line-feed
WithoutCRLF(line) ==
    IF Len(line) >= 2 /\ line[Len(line) - 1] = CR /\ line[Len(line)] = LF
    THEN SubSeq(line, 1, Len(line) - 2)
    ELSE line

\* the delivered header lines, each without its trailing CRLF
DeliveredHeaders(w) ==
    [i \in 1..Len(delivered[w].headers) |-> WithoutCRLF(delivered[w].headers[i])]

RECURSIVE Concat(_)
\* the concatenation of a sequence of chunks
Concat(chunks) ==
    IF chunks = <<>> THEN <<>> ELSE Head(chunks) \o Concat(Tail(chunks))

\* the operation on worker w has built the Response it returns
Returning(w) == pc[w] = "return"

\* the engine ended the transfer of worker w with a response to inspect
GotResponse(w) ==
    outcome[w].res \in {CURLE_OK, CURLE_HTTP_RETURNED_ERROR}

\* the engine ended the transfer of worker w with any other outcome
TransportFailure(w) == ~GotResponse(w)

\* the transfer of worker w has started: the engine has read the handle
InTransfer(w) == pc[w] \in {"perform", "return"}

\* the request keyword that belongs to an operation
MethodOf(op) ==
    CASE op = "get" -> "GET"
      [] op = "head" -> "HEAD"
      [] op = "post" -> "POST"
      [] op = "post_form" -> "POST"
      [] op = "put" -> "PUT"
      [] op = "patch" -> "PATCH"
      [] op = "del" -> "DELETE"

\* the kind of payload that belongs to an operation called with body
PayloadOf(op, body) ==
    CASE op \in {"get", "head"} -> "none"
      [] op = "post" -> "raw"
      [] op = "post_form" -> "mime"
      [] op \in {"put", "patch", "del"} ->
             IF body = <<>> THEN "none" ELSE "raw"

----------------------------------------------------------------------------
(* C1: sequential isolation of responses.  Whatever operations ran before  *)
(* on the worker, the headers and body of a returned Response are exactly  *)
(* the header lines and body chunks delivered during that call when the    *)
(* outcome is inspectable, and hold nothing at all otherwise; lines an     *)
(* earlier failed transfer left in the accumulator never appear.           *)
C1_SequentialIsolation ==
    \A w \in Workers :
        Returning(w) =>
            /\ response[w].headers \in {<<>>, DeliveredHeaders(w)}
            /\ response[w].body \in {<<>>, Concat(delivered[w].body)}
            /\ GotResponse(w) =>
                  /\ response[w].headers = DeliveredHeaders(w)
                  /\ response[w].body = Concat(delivered[w].body)

\* a call that began with lines of an earlier failed transfer in the
\* accumulator returns an inspectable response with lines and a body of its own
C1_Witness ==
    \E w \in Workers :
        /\ Returning(w)
        /\ call[w].leftover
        /\ GotResponse(w)
        /\ delivered[w].headers # <<>>
        /\ delivered[w].body # <<>>

----------------------------------------------------------------------------
(* C2: the handle is configured freshly for every call with respect to     *)
(* method and payload.  In every transfer the request keyword the engine   *)
(* sends is the one of the operation called, and the transfer carries a    *)
(* payload only if that operation attaches one: a get after put, patch or  *)
(* del is sent as GET, a get after post carries no payload, a del without  *)
(* body after a put with body carries no payload.  (Transfers with body    *)
(* retrieval suppressed are the subject of C3 and are left out here.)      *)
C2_FreshMethodAndPayload ==
    \A w \in Workers :
        InTransfer(w) /\ ~sent[w].nobody =>
            /\ sent[w].method = MethodOf(call[w].op)
            /\ sent[w].payload = PayloadOf(call[w].op, call[w].body)

----------------------------------------------------------------------------
(* C3: body-retrieval suppression is per call.  In every transfer of an    *)
(* operation other than head the engine fetches the response body, even    *)
(* when head was called on the worker before.                              *)
C3_BodyRetrievedAfterHead ==
    \A w \in Workers :
        InTransfer(w) /\ call[w].op # "head" => ~sent[w].nobody

----------------------------------------------------------------------------
(* C4: the request header list is rebuilt per call.  In every transfer the *)
(* header lines attached are exactly the headers argument of the call, in  *)
(* the caller's order.                                                     *)
C4_HeaderListRebuilt ==
    \A w \in Workers :
        InTransfer(w) => sent[w].headers = call[w].headers

----------------------------------------------------------------------------
(* C5: transport failure sentinel.  When the engine's outcome is neither   *)
(* clean success nor its HTTP-returned-error outcome, the returned         *)
(* Response has status_code 0 and empty headers, body, encoding and url,   *)
(* whatever was delivered before the failure.                              *)
C5_TransportFailureSentinel ==
    \A w \in Workers :
        Returning(w) /\ TransportFailure(w) =>
            /\ response[w].status_code = 0
            /\ response[w].headers = <<>>
            /\ response[w].body = <<>>
            /\ response[w].encoding = <<>>
            /\ response[w].url = <<>>

\* a transfer that timed out after header lines and body chunks had arrived
C5_Witness ==
    \E w \in Workers :
        /\ Returning(w)
        /\ outcome[w].res = CURLE_OPERATION_TIMEDOUT
        /\ delivered[w].headers # <<>>
        /\ delivered[w].body # <<>>

----------------------------------------------------------------------------
(* C6: an HTTP-level error status is data.  When the engine reports its    *)
(* HTTP-returned-error outcome, the returned Response carries the server's *)
(* status code, the delivered header lines, the delivered body and the     *)
(* effective URL, and its success predicate is false.                      *)
C6_HttpErrorIsData ==
    \A w \in Workers :
        Returning(w) /\ outcome[w].res = CURLE_HTTP_RETURNED_ERROR =>
            /\ response[w].status_code = outcome[w].response_code
            /\ response[w].status_code >= 400
            /\ response[w].headers = DeliveredHeaders(w)
            /\ response[w].body = Concat(delivered[w].body)
            /\ response[w].url = outcome[w].effective_url
            /\ ~success(response[w])

\* a 4xx answer whose header lines were delivered
C6_Witness ==
    \E w \in Workers :
        /\ Returning(w)
        /\ outcome[w].res = CURLE_HTTP_RETURNED_ERROR
        /\ outcome[w].response_code \in StatusError
        /\ delivered[w].headers # <<>>

----------------------------------------------------------------------------
(* C7: a put, patch or del with a non-empty body attaches that body        *)
(* verbatim.  When the transfer runs, the storage the handle points at is  *)
(* still alive and the payload the engine reads is the body argument.      *)
C7_UpdateBodyVerbatim ==
    \A w \in Workers :
        InTransfer(w) /\ call[w].op \in {"put", "patch", "del"}
                      /\ call[w].body # <<>> =>
            /\ sent[w].payload = "raw"
            /\ sent[w].payload_live
            /\ sent[w].postfields = call[w].body

----------------------------------------------------------------------------
(* Content-type lines as the properties read them.                         *)

\* line names the content-type header, in any letter case
IsContentTypeLine(line) ==
    /\ Len(line) >= Len(content_type_prefix)
    /\ \A i \in 1..Len(content_type_prefix) :
          tolower(line[i]) = content_type_prefix[i]

\* the positions in headers of the content-type lines
ContentTypePositions(headers) ==
    {i \in 1..Len(headers) : IsContentTypeLine(headers[i])}

\* the 1-based position of the first character after "charset=" in line,
\* 0 if line has no "charset="
CharsetStart(line) ==
    LET at == {i \in 1..(Len(line) - 7) : SubSeq(line, i, i + 7) = charset_eq}
    IN  IF at = {} THEN 0
        ELSE (CHOOSE i \in at : \A j \in at : i <= j) + 8

RECURSIVE UpToSemicolon(_)
\* s up to, not including, its first semicolon; all of s if it has none
UpToSemicolon(s) ==
    IF s = <<>> \/ Head(s) = ";" THEN <<>>
    ELSE <<Head(s)>> \o UpToSemicolon(Tail(s))

\* the charset parameter of line: from just after "charset=" to the next
\* semicolon or the end of the line
CharsetParameter(line) ==
    UpToSemicolon(SubSeq(line, CharsetStart(line), Len(line)))

----------------------------------------------------------------------------
(* C8: charset extraction.  On an inspectable outcome whose only           *)
(* content-type line (here one whose name is spelled in lower case) has a  *)
(* charset= parameter, encoding is the text from just after charset= up    *)
(* to, not including, the next semicolon, or to the end of the line.       *)
C8_CharsetExtraction ==
    \A w \in Workers :
        Returning(w) /\ GotResponse(w) =>
            \A i \in ContentTypePositions(response[w].headers) :
                LET line == response[w].headers[i]
                IN  /\ ContentTypePositions(response[w].headers) = {i}
                    /\ starts_with(line, content_type_prefix)
                    /\ CharsetStart(line) # 0
                    => response[w].encoding = CharsetParameter(line)

----------------------------------------------------------------------------
(* C9: the content-type header name is matched case-insensitively.  On an  *)
(* inspectable outcome whose only content-type line is                     *)
(* "content-type: text/html; charset=UTF-8" with the name in any letter    *)
(* case, encoding is "UTF-8".                                              *)
C9_ContentTypeAnyCase ==
    \A w \in Workers :
        Returning(w) /\ GotResponse(w) =>
            \A i \in ContentTypePositions(response[w].headers) :
                /\ ContentTypePositions(response[w].headers) = {i}
                /\ \E name \in ContentTypeNames :
                      response[w].headers[i] =
                          name \o text_html \o charset_eq \o UTF_8
                => response[w].encoding = UTF_8

----------------------------------------------------------------------------
(* C10: response header round trip.  While a transfer runs and in the      *)
(* Response of an inspectable outcome, the header sequence has exactly one *)
(* entry per header callback, in delivery order; an entry delivered with a *)
(* trailing carriage-return+line-feed lacks exactly those two characters   *)
(* and every other entry is as delivered.                                  *)
C10_HeaderRoundTrip ==
    \A w \in Workers :
        /\ pc[w] = "perform" =>
              /\ Len(response_headers[w]) = Len(delivered[w].headers)
              /\ \A i \in 1..Len(delivered[w].headers) :
                    LET line == delivered[w].headers[i]
                        entry == response_headers[w][i]
                    IN  IF ends_with(line, CRLF)
                        THEN entry \o CRLF = line
                        ELSE entry = line
        /\ Returning(w) /\ GotResponse(w) =>
              response[w].headers = DeliveredHeaders(w)

\* a response of two lines, one delivered with CRLF and one with a bare
\* line-feed
C10_Witness ==
    \E w \in Workers :
        /\ Returning(w)
        /\ GotResponse(w)
        /\ Len(delivered[w].headers) = 2
        /\ ends_with(delivered[w].headers[1], CRLF)
        /\ delivered[w].headers[2] = <<"X", LF>>
        /\ response[w].headers[2] = <<"X", LF>>

----------------------------------------------------------------------------
(* C11: HEAD requests never populate body.  For every head call, whatever  *)
(* operations ran before on the worker and whatever the engine's outcome,  *)
(* no body chunk reaches the response buffer while the transfer runs and   *)
(* the returned Response's body is empty.                                  *)
C11_HeadBodyEmpty ==
    \A w \in Workers :
        call[w].op = "head" =>
            /\ InTransfer(w) => chunk[w].size = 0 /\ delivered[w].body = <<>>
            /\ Returning(w) => response[w].body = <<>>

\* a head that follows a put and a call that attached a raw body on the
\* same handle returns an inspectable response with header lines
C11_Witness ==
    \E w \in Workers :
        /\ Returning(w)
        /\ call[w].op = "head"
        /\ GotResponse(w)
        /\ response[w].headers # <<>>
        /\ curl[w].customrequest = "PUT"
        /\ ~curl[w].postfields.null

----------------------------------------------------------------------------
(* Steps of one worker as the properties tell them apart.                  *)

\* the step is not one of worker w: w's position, deliveries and thread
\* are as before
NotStepOf(w) ==
    /\ pc'[w] = pc[w]
    /\ delivered'[w] = delivered[w]
    /\ thread'[w] = thread[w]

\* the step leaves the transfer handle, the request header list, the
\* header accumulator and the context lifetime of worker w as they were
ContextUntouched(w) ==
    /\ curl'[w] = curl[w]
    /\ header_chunk'[w] = header_chunk[w]
    /\ response_headers'[w] = response_headers[w]
    /\ curl_thread_context'[w] = curl_thread_context[w]

\* while the transfer of worker w runs, its accumulators hold exactly what
\* was delivered to it, and so does the Response of an inspectable outcome
HoldsOwnDeliveries(w) ==
    /\ pc[w] = "perform" =>
          /\ response_headers[w] = DeliveredHeaders(w)
          /\ body_of(chunk[w]) = Concat(delivered[w].body)
    /\ Returning(w) /\ GotResponse(w) =>
          /\ response[w].headers = DeliveredHeaders(w)
          /\ response[w].body = Concat(delivered[w].body)

----------------------------------------------------------------------------
(* C12: independent workers share no mutable state.  In every interleaving *)
(* of the header and body callbacks of requests running on two workers,    *)
(* each worker's accumulators and Response hold exactly the header lines   *)
(* and body chunks delivered for its own request, and no step of one       *)
(* worker changes the handle, request header list or header accumulator of *)
(* the other.                                                              *)
C12_WorkersIndependent ==
    /\ [](\A w \in Workers : HoldsOwnDeliveries(w))
    /\ [][\A w \in Workers : NotStepOf(w) => ContextUntouched(w)]_vars

\* both workers are inside a transfer, each having received header lines
\* and body chunks, and not the same header lines
C12_Witness ==
    /\ \A w \in Workers :
          /\ pc[w] = "perform"
          /\ delivered[w].headers # <<>>
          /\ delivered[w].body # <<>>
    /\ \E v, w \in Workers : delivered[v].headers # delivered[w].headers

----------------------------------------------------------------------------
(* C13: engine lifecycle ordering.  The engine's global initialisation     *)
(* runs exactly once and before any worker's handle is created; the global *)
(* teardown runs at most once and only when every worker's handle has been *)
(* destroyed, so that no worker holds, creates or uses a handle after it.  *)
C13_EngineLifecycle ==
    /\ curl_global_context.inits <= 1
    /\ curl_global_context.cleanups <= 1
    /\ \A w \in Workers :
          curl_thread_context[w].state # "unconstructed" =>
              curl_global_context.inits = 1
    /\ curl_global_context.cleanups > 0 =>
          \A w \in Workers :
              /\ curl_thread_context[w].state # "constructed"
              /\ ~InTransfer(w)

----------------------------------------------------------------------------
(* C14: one transfer handle per worker.  A worker's handle is created by   *)
(* its first request and by no other step, every transfer of the worker    *)
(* runs on that one handle, a step of another worker never touches it, and *)
(* when the worker has ended the handle and the request header list have   *)
(* been released exactly once, together; when handle creation fails the    *)
(* operation throws at once and no transfer is started.                    *)
C14_OneHandlePerWorker ==
    /\ [](\A w \in Workers :
            LET ctx == curl_thread_context[w]
            IN  /\ ctx.inits <= 1
                /\ InTransfer(w) => ctx.state = "constructed" /\ ctx.inits = 1
                /\ thread[w] = "unstarted" => ctx.state = "unconstructed"
                /\ thread[w] = "running" => ctx.cleanups = 0 /\ ctx.frees = 0
                /\ thread[w] = "exited" =>
                      /\ ctx.state # "constructed"
                      /\ ctx.cleanups = ctx.inits
                      /\ ctx.frees = ctx.inits
                      /\ header_chunk[w] = <<>>
                /\ pc[w] = "thrown" =>
                      /\ ctx.state = "unconstructed"
                      /\ sent[w] = NoSent)
    /\ [][\A w \in Workers :
            /\ NotStepOf(w) => ContextUntouched(w)
            /\ curl_thread_context'[w].inits # curl_thread_context[w].inits =>
                  pc[w] = "idle" /\ pc'[w] = "perform"]_vars

\* one worker has ended after a request with headers, its handle and list
\* released, while the other is inside a later request on a handle that
\* already carries the header list of an earlier one
C14_Witness ==
    \E v, w \in Workers :
        /\ thread[v] = "exited"
        /\ curl_thread_context[v].cleanups = 1
        /\ curl_thread_context[v].frees = 1
        /\ InTransfer(w)
        /\ call[w].headers # <<>>
        /\ Len(header_chunk[w]) > Len(call[w].headers)
        /\ curl_thread_context[w].inits = 1

----------------------------------------------------------------------------
(* C15: success predicate.  The boolean conversion of a returned Response  *)
(* is true exactly when 100 <= status_code < 400: false for status_code 0  *)
(* and for every 4xx and 5xx, true for 1xx, 2xx and 3xx; and for every     *)
(* operation the server answers with a 2xx code, status_code is that code  *)
(* and the predicate is true.                                              *)
C15_SuccessPredicate ==
    \A w \in Workers :
        Returning(w) =>
            LET code == response[w].status_code
            IN  /\ success(response[w]) <=> code \in 100..399
                /\ code = 0 => ~success(response[w])
                /\ code \in 400..599 => ~success(response[w])
                /\ code \in 300..399 => success(response[w])
                /\ GotResponse(w) /\ outcome[w].response_code \in 200..299 =>
                      /\ code = outcome[w].response_code
                      /\ success(response[w])

\* a patch the server answers with 204
C15_Witness ==
    \E w \in Workers :
        /\ Returning(w)
        /\ call[w].op = "patch"
        /\ outcome[w].response_code = 204
        /\ response[w].status_code = 204
        /\ success(response[w])

----------------------------------------------------------------------------
(* Form fields as the properties read them.                                *)

\* the characters of s before its first zero byte; all of s if it has none
UpToNul(s) ==
    LET nuls == {i \in 1..Len(s) : s[i] = NUL}
    IN  IF nuls = {} THEN s
        ELSE SubSeq(s, 1, (CHOOSE i \in nuls : \A j \in nuls : i <= j) - 1)

----------------------------------------------------------------------------
(* C16: post with a form builds a multipart body.  In the transfer of a    *)
(* post with a form the engine is handed a multipart payload that is still *)
(* bound to the handle, with exactly one part per form field in the order  *)
(* of the form, each part named by the field name and carrying the field   *)
(* value up to its first zero byte; posting username=dopey,                *)
(* password=qwerty sends both field names.                                 *)
C16_FormMultipart ==
    \A w \in Workers :
        InTransfer(w) /\ call[w].op = "post_form" =>
            LET form == call[w].form
                mime == sent[w].mime
            IN  /\ sent[w].payload = "mime"
                /\ Len(mime) = Len(form)
                /\ \A i \in 1..Len(form) :
                      /\ mime[i].name = form[i][1]
                      /\ mime[i].data = UpToNul(form[i][2])

\* the README's login form in a transfer that follows a post with a raw
\* body on the same handle
C16_Witness ==
    \E w \in Workers :
        /\ InTransfer(w)
        /\ call[w].op = "post_form"
        /\ call[w].form = <<<<username, dopey>>, <<password, qwerty>>>>
        /\ sent[w].mime[1].name = username
        /\ sent[w].mime[2].name = password
        /\ ~curl[w].postfields.null

----------------------------------------------------------------------------
(* C17: no charset, no encoding.  On an inspectable outcome whose headers  *)
(* hold no content-type line, or whose content-type lines (the name in any *)
(* letter case) hold no charset= substring, CHARSET= in capitals not       *)
(* counting as one, encoding is empty.                                     *)
C17_NoCharsetNoEncoding ==
    \A w \in Workers :
        /\ Returning(w)
        /\ GotResponse(w)
        /\ \A i \in ContentTypePositions(response[w].headers) :
               CharsetStart(response[w].headers[i]) = 0
        => response[w].encoding = <<>>

\* url.cxx returns a response whose content-type line spells the parameter
\* CHARSET= and whose other line holds charset= without being content-type
C17_Witness ==
    \E w \in Workers :
        /\ unit = "url.cxx"
        /\ Returning(w)
        /\ GotResponse(w)
        /\ response[w].headers =
               <<Content_Type_prefix \o text_html \o CHARSET_eq \o UTF_8,
                 x_note \o charset_eq \o UTF_8>>
        /\ response[w].encoding = <<>>

----------------------------------------------------------------------------
(* URLs as the properties read them.                                       *)

RECURSIVE PercentDecoded(_)
\* s with every %20 turned back into a space
PercentDecoded(s) ==
    IF s = <<>> THEN <<>>
    ELSE IF Len(s) >= 3 /\ SubSeq(s, 1, 3) = <<"%", "2", "0">>
    THEN <<" ">> \o PercentDecoded(SubSeq(s, 4, Len(s)))
    ELSE <<Head(s)>> \o PercentDecoded(Tail(s))

\* url has a scheme
HasScheme(url) == \E i \in 1..(Len(url) - 2) : SubSeq(url, i, i + 2) = scheme_sep

\* url with the default scheme in front if it has none
WithScheme(url) ==
    IF HasScheme(url) THEN url ELSE https \o scheme_sep \o url

\* normalized is a normalized form of url: it has a scheme, the default
\* one where url has none, holds no space, and reads as url once decoded,
\* but for the slash of an empty path
NormalizedFrom(url, normalized) ==
    /\ HasScheme(normalized)
    /\ ~HasScheme(url) => starts_with(normalized, https \o scheme_sep)
    /\ \A i \in 1..Len(normalized) : normalized[i] # " "
    /\ PercentDecoded(normalized) \in
           {WithScheme(url), WithScheme(url) \o <<"/">>}

----------------------------------------------------------------------------
(* C18: URL normalization is best-effort.  In every transfer of url.cxx,   *)
(* if the engine's URL parser accepts the caller's URL, the URL on the     *)
(* handle is its normalized form (the default scheme applied when it has   *)
(* none, spaces percent-encoded); if the parser rejects it, the URL on the *)
(* handle is the caller's string unmodified, the transfer still runs and   *)
(* the operation returns a Response, the one of a transport failure,       *)
(* without raising an error.                                               *)
C18_UrlNormalizationBestEffort ==
    \A w \in Workers :
        unit = "url.cxx" /\ InTransfer(w) =>
            IF curl_url_set_ok(call[w].url)
            THEN NormalizedFrom(call[w].url, sent[w].url)
            ELSE /\ sent[w].url = call[w].url
                 /\ Returning(w) => response[w] = response_t

\* an operation called with a URL the parser rejects (a space in the host)
\* has run its transfer on the unmodified string and returns
C18_Witness ==
    \E w \in Workers :
        /\ unit = "url.cxx"
        /\ Returning(w)
        /\ call[w].url = <<"a", " ", "b">>
        /\ sent[w].url = <<"a", " ", "b">>
        /\ response[w] = response_t

----------------------------------------------------------------------------
(* C19: growable response buffer.  From the start of a transfer on, after  *)
(* any sequence of body deliveries, those of zero bytes and none at all    *)
(* included, the running length is the sum of the delivered lengths, the   *)
(* first length bytes of the buffer are the delivered chunks in order, the *)
(* byte at index length is the zero byte, and on an inspectable outcome    *)
(* the Response body is exactly those length bytes.                        *)
C19_GrowableBuffer ==
    \A w \in Workers :
        InTransfer(w) =>
            /\ chunk[w].size = Len(Concat(delivered[w].body))
            /\ SubSeq(chunk[w].memory, 1, chunk[w].size) =
                   Concat(delivered[w].body)
            /\ Len(chunk[w].memory) = chunk[w].size + 1
            /\ chunk[w].memory[chunk[w].size + 1] = NUL
            /\ Returning(w) /\ GotResponse(w) =>
                   response[w].body = Concat(delivered[w].body)

----------------------------------------------------------------------------
(* C20: no dangling references across calls.  In every transfer of get,    *)
(* head or post, whatever operations ran before on the worker, a payload   *)
(* the engine reads through the handle is live storage: a request issued   *)
(* after post(url, body) has returned does not read the released body of   *)
(* that call.  (The body of put, patch and del is the subject of C7.)      *)
C20_NoDanglingReferences ==
    \A w \in Workers :
        InTransfer(w) /\ call[w].op \in {"get", "head", "post", "post_form"} =>
            sent[w].payload_live

----------------------------------------------------------------------------
\* the position in headers of the first content-type line in delivery order
FirstContentType(headers) ==
    CHOOSE i \in ContentTypePositions(headers) :
        \A j \in ContentTypePositions(headers) : i <= j

(* C21: first content-type line only.  When request() of url.cxx returns   *)
(* an inspectable outcome in which several content-type lines were         *)
(* delivered, encoding is the charset parameter of the first of them in    *)
(* delivery order, and it is empty if that first line has no charset=,     *)
(* whatever the later content-type lines hold.                             *)
C21_FirstContentTypeOnly ==
    \A w \in Workers :
        /\ unit = "url.cxx"
        /\ Returning(w)
        /\ GotResponse(w)
        /\ Cardinality(ContentTypePositions(response[w].headers)) >= 2
        => LET line ==
                   response[w].headers[FirstContentType(response[w].headers)]
           IN  response[w].encoding =
                   IF CharsetStart(line) # 0 THEN CharsetParameter(line)
                   ELSE <<>>

----------------------------------------------------------------------------
(* C22: response chaining helpers.  For every call of a chain, on a        *)
(* response r with a callable f: and_then invokes f exactly once, on r,    *)
(* and returns what f returned when r's success predicate is true, and     *)
(* otherwise invokes nothing and returns the value-initialised object of   *)
(* f's result type; or_else invokes nothing and returns r itself when the  *)
(* success predicate is true, and otherwise invokes f exactly once, with   *)
(* no argument, and returns what f returned.                               *)
C22_ChainingHelpers ==
    \A i \in 1..Len(chain.calls) :
        LET c == chain.calls[i]
        IN  /\ c.op = "and_then" /\ success(c.r) =>
                /\ c.invoked = << <<c.r>> >>
                /\ c.value = invoke(c.f, <<c.r>>)
            /\ c.op = "and_then" /\ ~success(c.r) =>
                /\ c.invoked = <<>>
                /\ c.value = value_initialized(c.f.result)
            /\ c.op = "or_else" /\ success(c.r) =>
                /\ c.invoked = <<>>
                /\ c.value = response_value(c.r)
            /\ c.op = "or_else" /\ ~success(c.r) =>
                /\ c.invoked = << <<>> >>
                /\ c.value = invoke(c.f, <<>>)

\* a chain on a 404 answer in which each helper has acted both ways:
\* and_then skipped same_response and returned response_t{}, or_else
\* invoked cached_response, or_else on the cached answer returned it
\* without invoking, and and_then invoked status_code_of on it
C22_Witness ==
    /\ Len(chain.calls) = 4
    /\ chain.calls[1].op = "and_then"
    /\ chain.calls[1].r.status_code = 404
    /\ chain.calls[1].invoked = <<>>
    /\ chain.calls[1].value = response_value(response_t)
    /\ chain.calls[2].op = "or_else"
    /\ chain.calls[2].invoked = << <<>> >>
    /\ chain.calls[2].value = invoke(cached_response, <<>>)
    /\ chain.calls[3].op = "or_else"
    /\ chain.calls[3].invoked = <<>>
    /\ chain.calls[3].value = invoke(cached_response, <<>>)
    /\ chain.calls[4].op = "and_then"
    /\ chain.calls[4].invoked = << <<chain.calls[3].r>> >>
    /\ chain.value = uint32_value(200)

====
